---- MODULE Spec2Model ----
(***************************************************************************)
(* Verification model of insightidr_updater.py: the investigation fetch,   *)
(* the view projection (sort + assignee filter), the bulk update worker    *)
(* and the comment history log.                                            *)
(***************************************************************************)
EXTENDS Integers, Sequences, FiniteSets, TLC

(***************************************************************************)
(* Bounds of the model and program constants.                              *)
(***************************************************************************)
\* _load_comment_history / _save_comment_history keep the last 50 entries
HistoryCap == 50
\* history operations (append, clear, reload) explored in one session
MaxHistoryOps == 4
\* pages the fake server holds, and records per page
MaxPages == 3
MaxPageLen == 2
\* records in the record set of the view projection
MaxRows == 3
\* records in the record set a bulk run selects from
MaxBulkRows == 2
\* records the server holds in a whole session (start, bulk run, refresh)
MaxSessionRows == 1
\* records in the list the operator ticks, sorts and filters
MaxSelectRows == 2
\* settings saves (region, API key, assignees) in one behaviour
MaxCfgOps == 2

VARIABLES
    \* ---- comment history log ----
    comment_history,            \* App.comment_history (in memory)
    settings_comment_history,   \* "comment_history" of the settings file
    now,                        \* clock read by now_str()
    appended,                   \* history: entries appended since the last clear
    hist_ops,                   \* history: number of history operations so far
    last_hist_op,               \* history: the last history operation
    \* ---- paginated fetch (list_investigations against a server) ----
    server_pages,               \* the server's pages, each a sequence of records
    server_total,               \* metadata.total_pages as the server reports it
    server_index,               \* metadata.index as the server reports it
    index,                      \* list_investigations: index
    all_items,                  \* list_investigations: all_items
    fetch_pc,                   \* where the fetch and its worker thread are
    requested,                  \* history: the page indices requested so far
    \* ---- record set and its view ----
    rows,                       \* App.rows, the canonical record set
    sort_oldest_first,          \* App.sort_oldest_first
    assignee_filter_var,        \* App.assignee_filter_var
    filter_options,             \* values offered by the assignee filter menu
    row_frames,                 \* the records of the displayed cards, in order
    row_vars,                   \* App.row_vars, one checkbox value per card
    tk_error,                   \* exception of the last foreground callback
    \* ---- foreground thread ----
    after_queue,                \* callbacks posted with after(0, ...), in order
    delivered,                  \* history: the per-record log callbacks run so far
    error_shown,                \* the text of the last messagebox.showerror
    rows_before,                \* history: App.rows when the last fetch started
    checking,                   \* _check_thread_progress is polling the fetch thread
    closed_early,               \* history: the operator closed a ProgressDialog
    \* ---- API client: the last operation called ----
    api_op,                     \* the operation, "none" before the first call
    api_answers,                \* the HTTP statuses the server answered with
    api_body_ok,                \* the last answer's body had the expected shape
    api_raised,                 \* the operation raised to its caller
    api_value,                  \* what the operation returned
    \* ---- settings ----
    cfg,                        \* App.cfg, the settings as last loaded
    region,                     \* App.region
    settings_region,            \* "region" of the settings file
    settings_assignees,         \* "assignees" of the settings file
    settings_api_key_source,    \* "api_key_source" of the settings file
    cfg_ops,                    \* history: number of settings saves so far
    assignees_saved,            \* history: the assignee directory was saved
    \* ---- bulk update (update_selected_async and its worker) ----
    selected,                   \* the worker's rows: the selection, in order
    chosen_status,              \* "" when falsy
    chosen_dispo,               \* "" when None
    chosen_assignee_label,      \* the value of the assignee menu
    chosen_email,               \* "" when None
    status_wanted,              \* history: the operator meant to change the status
    got_rrn,                    \* what get_rrn(inv_id) returned to the worker
    comment,                    \* "" when None
    total,                      \* len(rows)
    results,                    \* [successes, fails]
    idx,                        \* 1-based index of the record in progress
    worker_pc,                  \* the network call the worker makes next
    calls,                      \* history: the network calls made, with outcome
    report,                     \* what _update_complete received
    progress_open               \* a ProgressDialog is open

histVars == <<comment_history, settings_comment_history, now, appended,
              hist_ops, last_hist_op>>

fetchVars == <<server_pages, server_total, server_index, index, all_items,
               fetch_pc, requested>>

viewVars == <<rows, sort_oldest_first, assignee_filter_var, filter_options,
              row_frames, row_vars, tk_error>>

bulkVars == <<selected, chosen_status, chosen_dispo, chosen_assignee_label,
              chosen_email, status_wanted, got_rrn, comment,
              total, results, idx, worker_pc, calls, report, progress_open>>

uiVars == <<delivered, error_shown, rows_before>>

dialogVars == <<checking, closed_early>>

apiVars == <<api_op, api_answers, api_body_ok, api_raised, api_value>>

cfgVars == <<cfg, region, settings_region, settings_assignees,
             settings_api_key_source, cfg_ops, assignees_saved>>

vars == <<comment_history, settings_comment_history, now, appended,
          hist_ops, last_hist_op,
          server_pages, server_total, server_index, index, all_items, fetch_pc,
          requested,
          rows, sort_oldest_first, assignee_filter_var, filter_options,
          row_frames, row_vars, tk_error, after_queue,
          delivered, error_shown, rows_before, checking, closed_early,
          api_op, api_answers, api_body_ok, api_raised, api_value,
          cfg, region, settings_region, settings_assignees,
          settings_api_key_source, cfg_ops, assignees_saved,
          selected, chosen_status, chosen_dispo, chosen_assignee_label,
          chosen_email, status_wanted, got_rrn, comment,
          total, results, idx, worker_pc, calls, report, progress_open>>

(***************************************************************************)
(* Strings.  The model's strings are a small universe; str.strip() is      *)
(* modelled on that universe by what it does to each member.               *)
(***************************************************************************)
\* str.strip(): surrounding whitespace removed
Strip(s) ==
    CASE s = "  "      -> ""
      [] s = " fp "    -> "fp"
      [] s = " dup "   -> "dup"
      [] s = " a@x "   -> "a@x"
      [] OTHER         -> s

\* Python s[-n:] for n > 0
LastN(s, n) == IF Len(s) > n THEN SubSeq(s, Len(s) - n + 1, Len(s)) ELSE s

(***************************************************************************)
(* Comment history log                                                     *)
(***************************************************************************)
\* _load_comment_history: the in-memory copy after reading the settings file
load_comment_history(stored) ==
    IF Len(stored) > HistoryCap THEN LastN(stored, HistoryCap) ELSE stored

\* faulty variant of _save_comment_history: keeps the first 50 entries
save_first_entries(hist) ==
    IF Len(hist) > HistoryCap THEN SubSeq(hist, 1, HistoryCap) ELSE hist

\* _save_comment_history: what is written to the settings file
save_comment_history(hist) == LastN(hist, HistoryCap)

\* _add_to_comment_history(comment_text)
add_to_comment_history(comment_text) ==
    IF Strip(comment_text) = ""
    THEN UNCHANGED <<comment_history, settings_comment_history, now, appended,
                     last_hist_op>>
    ELSE LET entry == [timestamp |-> now, text |-> Strip(comment_text)] IN
         /\ comment_history' = Append(comment_history, entry)
         /\ settings_comment_history' = save_comment_history(comment_history')
         /\ now' = now + 1
         /\ appended' = Append(appended, entry)
         /\ last_hist_op' = "append"

\* clear_comment_history, the operator having confirmed the dialog
clear_comment_history ==
    /\ hist_ops < MaxHistoryOps
    /\ comment_history' = <<>>
    /\ settings_comment_history' = save_comment_history(comment_history')
    /\ appended' = <<>>
    /\ last_hist_op' = "clear"
    /\ hist_ops' = hist_ops + 1
    /\ UNCHANGED now

\* the text test_comment_popup sends: the comment box, or a default text
CommentBoxTexts == {"", "  ", "fp", " fp ", " dup "}
test_comment_text(box) ==
    IF Strip(box) # "" THEN Strip(box) ELSE "Test comment from Troubleshoot button"

\* test_comment_popup.send_now: the comment is created, and recorded when ok
send_now(box, ok) ==
    /\ hist_ops < MaxHistoryOps
    /\ hist_ops' = hist_ops + 1
    /\ IF ok THEN add_to_comment_history(test_comment_text(box))
             ELSE UNCHANGED <<comment_history, settings_comment_history, now,
                              appended, last_hist_op>>

\* a new session: App.__init__ loads the history from the settings file
restart_session ==
    /\ hist_ops < MaxHistoryOps
    /\ hist_ops' = hist_ops + 1
    /\ comment_history' = load_comment_history(settings_comment_history)
    /\ last_hist_op' = "load"
    /\ UNCHANGED <<settings_comment_history, now, appended>>

\* a stored history of n entries written by earlier sessions
StoredHistory(n) == [i \in 1..n |-> [timestamp |-> i, text |-> "old"]]

StoredLengths == {0, 1, HistoryCap - 2, HistoryCap - 1, HistoryCap}

InitHistory ==
    /\ \E n \in StoredLengths :
         /\ settings_comment_history = StoredHistory(n)
         /\ now = n + 1
    /\ comment_history = load_comment_history(settings_comment_history)
    /\ appended = settings_comment_history
    /\ hist_ops = 0
    /\ last_hist_op = "load"

(***************************************************************************)
(* Paginated fetch: list_investigations against a server that answers a    *)
(* request for index k with page k (an empty page past the last one),      *)
(* metadata.total_pages server_total, and metadata.index k + skew, or no   *)
(* metadata.index at all.                                                  *)
(***************************************************************************)
RECURSIVE Concat(_)
Concat(pages) ==
    IF pages = <<>> THEN <<>> ELSE Head(pages) \o Concat(Tail(pages))

\* payload.get("data", []) or [] for a request of page k
page_items(k) == IF k + 1 <= Len(server_pages) THEN server_pages[k + 1] ELSE <<>>

\* int(meta.get("total_pages", 0) or 0)
total_pages_of(meta) == IF meta.present THEN meta.value ELSE 0

\* faulty variant of current_index: the requested index, whatever the
\* server reports
current_index_as_requested(meta, k) == k

\* int(meta.get("index", index)) for a request of page k
current_index_of(meta, k) == IF meta.present THEN k + meta.skew ELSE k

\* faulty variant of the exit test: stops one page early
last_page_one_early(total_pages, current_index) ==
    total_pages = 0 \/ current_index >= (total_pages - 2)

\* the loop's exit test after a non-empty page
last_page(total_pages, current_index) ==
    total_pages = 0 \/ current_index >= (total_pages - 1)

\* one iteration of the while loop whose request succeeds
list_investigations_page ==
    /\ fetch_pc = "loop"
    /\ requested' = Append(requested, index)
    /\ LET items == page_items(index)
           total_pages == total_pages_of(server_total)
           current_index == current_index_of(server_index, index)
       IN IF items = <<>>
          THEN /\ fetch_pc' = "returned"
               /\ UNCHANGED <<all_items, index>>
          ELSE /\ all_items' = all_items \o items
               /\ IF last_page(total_pages, current_index)
                  THEN fetch_pc' = "returned" /\ UNCHANGED index
                  ELSE fetch_pc' = "loop" /\ index' = index + 1
    /\ UNCHANGED <<server_pages, server_total, server_index>>

\* one iteration whose request fails: requests.get or raise_for_status raises
list_investigations_raise ==
    /\ fetch_pc = "loop"
    /\ requested' = Append(requested, index)
    /\ fetch_pc' = "raised"
    /\ UNCHANGED <<server_pages, server_total, server_index, index, all_items>>

\* the records 1..n cut into pages of the given lengths
RECURSIVE PagesOf(_, _)
PagesOf(lens, first) ==
    IF lens = <<>> THEN <<>>
    ELSE <<[i \in 1..Head(lens) |-> first + i - 1]>>
         \o PagesOf(Tail(lens), first + Head(lens))

PageLengths == UNION {[1..n -> 1..MaxPageLen] : n \in 0..MaxPages}

\* metadata.index minus the index requested: a server that counts pages
\* from the request, one behind it, or one ahead of it
IndexSkews == {0 - 1, 0, 1}

TrueIndex == [present |-> TRUE, skew |-> 0]

InitFetch ==
    /\ \E lens \in PageLengths : server_pages = PagesOf(lens, 1)
    /\ \E t \in 0..MaxPages, p \in BOOLEAN :
         server_total = [present |-> p, value |-> IF p THEN t ELSE 0]
    /\ \E d \in IndexSkews, p \in BOOLEAN :
         server_index = [present |-> p, skew |-> IF p THEN d ELSE 0]
    /\ index = 0
    /\ all_items = <<>>
    /\ fetch_pc = "loop"
    /\ requested = <<>>

\* the server reports the true number of pages
HonestServer ==
    /\ server_total = [present |-> TRUE, value |-> Len(server_pages)]
    /\ server_index.skew = 0

(***************************************************************************)
(* View projection: sort by creation time, then filter by assignee.        *)
(*                                                                         *)
(* A created_time string is [form, wall, off]: form "Z" is an ISO-8601     *)
(* value with a trailing Z, "offset" one with an explicit UTC offset,      *)
(* "naive" one with no offset, "bad" an unparsable string and "none" a     *)
(* missing value.  wall is the wall-clock reading and off the offset, in   *)
(* hours after 1970-01-01T00:00; the server lists records created on or    *)
(* after START_DATE, so every wall reading is after the epoch.             *)
(***************************************************************************)
EpochHour == 0

TimeZ(w)      == [form |-> "Z", wall |-> w, off |-> 0]
TimeOff(w, o) == [form |-> "offset", wall |-> w, off |-> o]
TimeNaive(w)  == [form |-> "naive", wall |-> w, off |-> 0]
TimeBad       == [form |-> "bad", wall |-> 0, off |-> 0]
TimeNone      == [form |-> "none", wall |-> 0, off |-> 0]

Parseable(ct) == ct.form \in {"Z", "offset", "naive"}

\* faulty variant of key_fn: unparsable values sort as the far future
key_fn_unparsable_newest(r) ==
    LET dt == r.created_time IN
    CASE dt.form = "Z"      -> [aware |-> TRUE, t |-> dt.wall]
      [] dt.form = "offset" -> [aware |-> TRUE, t |-> dt.wall - dt.off]
      [] dt.form = "naive"  -> [aware |-> FALSE, t |-> dt.wall]
      [] OTHER              -> [aware |-> TRUE, t |-> 99]

\* key_fn: the datetime a record sorts by; aware datetimes carry a UTC instant
key_fn(r) ==
    LET dt == r.created_time IN
    CASE dt.form = "Z"      -> [aware |-> TRUE, t |-> dt.wall]
      [] dt.form = "offset" -> [aware |-> TRUE, t |-> dt.wall - dt.off]
      [] dt.form = "naive"  -> [aware |-> FALSE, t |-> dt.wall]
      [] OTHER              -> [aware |-> TRUE, t |-> EpochHour]

\* datetime's "<" is defined between two aware or two naive values only
Comparable(rs) ==
    \A i, j \in 1..Len(rs) : key_fn(rs[i]).aware = key_fn(rs[j]).aware

\* x is placed after y when y does not have to come after x
StaysBefore(y, x, reverse) ==
    IF reverse THEN key_fn(y).t >= key_fn(x).t ELSE key_fn(y).t <= key_fn(x).t

RECURSIVE InsertStable(_, _, _)
InsertStable(acc, x, reverse) ==
    IF acc = <<>> THEN <<x>>
    ELSE IF StaysBefore(acc[Len(acc)], x, reverse)
         THEN Append(acc, x)
         ELSE Append(InsertStable(SubSeq(acc, 1, Len(acc) - 1), x, reverse),
                     acc[Len(acc)])

RECURSIVE StableSort(_, _)
StableSort(rs, reverse) ==
    IF rs = <<>> THEN <<>>
    ELSE InsertStable(StableSort(SubSeq(rs, 1, Len(rs) - 1), reverse),
                      rs[Len(rs)], reverse)

RECURSIVE ReverseSeq(_)
ReverseSeq(s) ==
    IF s = <<>> THEN <<>> ELSE Append(ReverseSeq(Tail(s)), Head(s))

\* faulty variant of the sort: the reverse flag is ignored
sorted_rows_ascending_only(rs, reverse) ==
    IF Comparable(rs)
    THEN [ok |-> TRUE, rows |-> StableSort(rs, FALSE)]
    ELSE [ok |-> FALSE, rows |-> <<>>]

\* sorted(rows, key=key_fn, reverse=...): Python's stable sort, which keeps
\* records of equal key in input order in both directions and raises
\* TypeError when it compares a naive datetime with an aware one
sorted_rows(rs, reverse) ==
    IF Comparable(rs)
    THEN [ok |-> TRUE, rows |-> StableSort(rs, reverse)]
    ELSE [ok |-> FALSE, rows |-> <<>>]

\* _assignee_from_rec
assignee_from_rec(rec) == Strip(rec.email)

RECURSIVE KeepRows(_, _)
KeepRows(rs, choice) ==
    IF rs = <<>> THEN <<>>
    ELSE LET keep == IF choice = "Unassigned"
                     THEN assignee_from_rec(Head(rs)) = ""
                     ELSE assignee_from_rec(Head(rs)) = choice
         IN (IF keep THEN <<Head(rs)>> ELSE <<>>) \o KeepRows(Tail(rs), choice)

\* faulty variant of the filter: compares the email as stored, unstripped
apply_assignee_filter_raw(rs, choice) ==
    IF choice = "All" THEN rs
    ELSE IF choice = "Unassigned"
         THEN SelectSeq(rs, LAMBDA r : r.email = "")
         ELSE SelectSeq(rs, LAMBDA r : r.email = choice)

\* _apply_assignee_filter
apply_assignee_filter(rs, choice) ==
    IF choice = "All" THEN rs ELSE KeepRows(rs, choice)

\* _sorted_rows_current_view
sorted_rows_current_view(rs, oldest_first, choice) ==
    LET srt == sorted_rows(rs, ~oldest_first) IN
    [ok |-> srt.ok, rows |-> apply_assignee_filter(srt.rows, choice)]

\* the options _refresh_complete gives the assignee filter menu
filter_options_of(rs) ==
    {"All", "Unassigned"}
        \cup {assignee_from_rec(rs[i]) : i \in {j \in 1..Len(rs) :
                                                assignee_from_rec(rs[j]) # ""}}

\* rebuild_list: the cards are cleared, then one card with an unticked
\* checkbox is added per record of the projection; when the sort raises,
\* the list stays cleared and Tk reports the exception
rebuild_list ==
    LET view == sorted_rows_current_view(rows', sort_oldest_first',
                                         assignee_filter_var') IN
    /\ row_frames' = view.rows
    /\ row_vars' = [i \in 1..Len(view.rows) |-> FALSE]
    /\ tk_error' = IF view.ok THEN "none" ELSE "TypeError"

\* faulty variant of on_sort_toggle: the record set itself is sorted
\* (self.rows.sort(...)) before the list is rebuilt
on_sort_toggle_in_place ==
    /\ sort_oldest_first' = ~sort_oldest_first
    /\ rows' = LET srt == sorted_rows(rows, ~sort_oldest_first')
               IN IF srt.ok THEN srt.rows ELSE rows
    /\ UNCHANGED <<assignee_filter_var, filter_options>>
    /\ rebuild_list

\* on_sort_toggle
on_sort_toggle ==
    /\ sort_oldest_first' = ~sort_oldest_first
    /\ UNCHANGED <<rows, assignee_filter_var, filter_options>>
    /\ rebuild_list

\* the assignee filter menu's command
select_assignee_filter(choice) ==
    /\ choice \in filter_options
    /\ assignee_filter_var' = choice
    /\ UNCHANGED <<rows, sort_oldest_first, filter_options>>
    /\ rebuild_list

\* a card's checkbox is clicked
toggle_row(i) ==
    /\ i \in 1..Len(row_vars)
    /\ row_vars' = [row_vars EXCEPT ![i] = ~row_vars[i]]
    /\ UNCHANGED <<rows, sort_oldest_first, assignee_filter_var, filter_options,
                   row_frames, tk_error>>

\* records the list endpoint can return
RecordKinds ==
    {<<TimeZ(2), "">>, <<TimeZ(2), "a@x">>, <<TimeZ(3), "b@x">>,
     <<TimeZ(3), " a@x ">>, <<TimeOff(3, 1), "a@x">>, <<TimeOff(4, 3), "">>,
     <<TimeNaive(2), "a@x">>, <<TimeNaive(3), "">>,
     <<TimeBad, "b@x">>, <<TimeBad, "">>, <<TimeNone, "a@x">>}

Record(i, kind) ==
    [id |-> i, rrn |-> "", title |-> "", created_time |-> kind[1],
     email |-> kind[2]]

RecordSets ==
    UNION {{[i \in 1..n |-> Record(i, f[i])] : f \in [1..n -> RecordKinds]}
             : n \in 0..MaxRows}

(***************************************************************************)
(* Bulk update: update_selected_async and its worker thread.  The worker   *)
(* makes its network calls one at a time; each worker action is one call   *)
(* together with the code that runs up to the next call.                   *)
(***************************************************************************)
\* _selected_rows: the records of the current projection whose checkbox is
\* ticked, in projection order
RECURSIVE TickedRows(_, _, _)
TickedRows(view, ticks, i) ==
    IF i > Len(ticks) THEN <<>>
    ELSE (IF ticks[i] /\ i <= Len(view) THEN <<view[i]>> ELSE <<>>)
             \o TickedRows(view, ticks, i + 1)

\* faulty variant: the ticked records in reverse projection order
selected_rows_reversed ==
    ReverseSeq(TickedRows(sorted_rows_current_view(rows, sort_oldest_first,
                                                   assignee_filter_var).rows,
                          row_vars, 1))

selected_rows ==
    TickedRows(sorted_rows_current_view(rows, sort_oldest_first,
                                        assignee_filter_var).rows,
               row_vars, 1)

\* get_assignees_from_settings, as labels of the assignee menu
AssigneeLabels == {"Unassigned / No Change", "Ann <a@x>"}

\* faulty variant of the loop: an entry without email yields its name
chosen_email_of_name(label) == IF label = "Ann <a@x>" THEN "a@x" ELSE label

\* the label -> email loop of update_selected_async; "" stands for None
chosen_email_of(label) == IF label = "Ann <a@x>" THEN "a@x" ELSE ""

\* values of the status and disposition menus (STATUSES, DISPOSITIONS) that
\* a bulk run is started with; the status menu has no empty value and
\* shows "OPEN" until the operator picks another one
StatusChoices == {"OPEN", "CLOSED"}
DispositionChoices == {"", "BENIGN"}

\* callbacks the worker posts to the foreground thread
UpdateDetail(i, title) ==
    [fn |-> "update_detail", i |-> i, total |-> total, title |-> title]
LogUpdated(i, title) ==
    [fn |-> "log_updated", i |-> i, total |-> total, title |-> title]
LogFailed(i, title) ==
    [fn |-> "log_failed", i |-> i, total |-> total, title |-> title]
AddToHistory(c) ==
    [fn |-> "add_to_comment_history", i |-> 0, total |-> 0, title |-> c]
UpdateComplete ==
    [fn |-> "update_complete", i |-> 0, total |-> 0, title |-> ""]

StepOrder == <<"status", "dispo", "assign", "comment">>

\* the if-tests of the worker's try block
Requested(step) ==
    CASE step = "status"  -> chosen_status # ""
      [] step = "dispo"   -> chosen_dispo # ""
      [] step = "assign"  -> chosen_email # ""
      [] step = "comment" -> comment # ""

\* str.startswith("rrn:") on the identifiers in use
startswith_rrn(s) ==
    s \in {"rrn:inv", "rrn:inv-1", "rrn:inv-2", "rrn:inv-3", "rrn:inv-4",
           "rrn:found"}

\* faulty variant of get_rrn's prefix test: every identifier is looked up
get_rrn_always_fetches(id_or_rrn) == FALSE

\* get_rrn answers without a request: the identifier is empty (ValueError)
\* or is already an RRN (returned as it is)
get_rrn_without_request(id_or_rrn) ==
    id_or_rrn = "" \/ startswith_rrn(id_or_rrn)

\* the value get_rrn returns; found is the rrn of the record the server
\* sends, "" when get_rrn raises
get_rrn(id_or_rrn, found) ==
    IF id_or_rrn = "" THEN ""
    ELSE IF get_rrn_without_request(id_or_rrn) THEN id_or_rrn
    ELSE found

\* the first call of a step: assign_user starts with the PATCH; the comment
\* step evaluates inv_rrn or get_rrn(inv_id) first
FirstCall(step, rec) ==
    CASE step = "assign"  -> "patch"
      [] step = "comment" -> IF rec.rrn # "" THEN "comment" ELSE "get_rrn"
      [] OTHER            -> step

\* the call that follows step number k for a record, or "none"
next_call(k, rec) ==
    LET later == {j \in (k + 1)..Len(StepOrder) : Requested(StepOrder[j])} IN
    IF later = {} THEN "none"
    ELSE FirstCall(StepOrder[CHOOSE j \in later : \A m \in later : j <= m], rec)

\* inv_key_v2 = inv_id or inv_rrn
inv_key_v2(rec) == IF rec.id # "" THEN rec.id ELSE rec.rrn

\* a network call as the log keeps it: the record it was made for, the
\* identifier it was made with, whether the server answered it with success
\* (2xx), and whether it ended the record's try block with an exception
Call(op, arg, ok, raised) ==
    [idx |-> idx, rec |-> selected[idx].id, op |-> op, arg |-> arg,
     ok |-> ok, raised |-> raised]

\* faulty variant: at the loop's end _update_complete is posted ahead of the
\* last record's callbacks
finish_record_report_first(new_results, posts) ==
    /\ results' = new_results
    /\ IF idx < total
       THEN /\ idx' = idx + 1
            /\ after_queue' = after_queue \o posts
                   \o <<UpdateDetail(idx + 1, selected[idx + 1].title)>>
            /\ worker_pc' = next_call(0, selected[idx + 1])
       ELSE /\ idx' = idx
            /\ after_queue' = after_queue \o <<UpdateComplete>> \o posts
            /\ worker_pc' = "done"

\* the end of a loop iteration: the next record's first call, or the loop's
\* end, where _update_complete is posted
finish_record(new_results, posts) ==
    /\ results' = new_results
    /\ IF idx < total
       THEN /\ idx' = idx + 1
            /\ after_queue' = after_queue \o posts
                   \o <<UpdateDetail(idx + 1, selected[idx + 1].title)>>
            /\ worker_pc' = next_call(0, selected[idx + 1])
       ELSE /\ idx' = idx
            /\ after_queue' = after_queue \o posts \o <<UpdateComplete>>
            /\ worker_pc' = "done"

\* faulty variant of the guard: every commented record posts the append
history_every_record(i, successes) == TRUE

\* the test that guards the history append: idx == 1 and successes == 0
history_once(i, successes) == i = 1 /\ successes = 0

\* the try block ran through: results["successes"] += 1
succeed_record(commented) ==
    finish_record([results EXCEPT !.successes = @ + 1],
                  (IF commented /\ history_once(idx, results.successes)
                   THEN <<AddToHistory(comment)>> ELSE <<>>)
                      \o <<LogUpdated(idx, selected[idx].title)>>)

\* faulty variant of the except block: the failure ends the loop
fail_record_and_stop(err) ==
    /\ results' = [results EXCEPT
                     !.fails = Append(@, [title |-> selected[idx].title,
                                          error |-> err])]
    /\ idx' = idx
    /\ after_queue' = after_queue
           \o <<LogFailed(idx, selected[idx].title), UpdateComplete>>
    /\ worker_pc' = "done"

\* faulty variant of the except block: the failed record is counted as a
\* success as well
fail_record_counted(err) ==
    finish_record([results EXCEPT
                     !.successes = @ + 1,
                     !.fails = Append(@, [title |-> selected[idx].title,
                                          error |-> err])],
                  <<LogFailed(idx, selected[idx].title)>>)

\* faulty variant of the except block: the entry goes to the front
fail_record_prepends(err) ==
    finish_record([results EXCEPT
                     !.fails = <<[title |-> selected[idx].title,
                                  error |-> err]>> \o @],
                  <<LogFailed(idx, selected[idx].title)>>)

\* the except block: results["fails"].append(f"{title}: {e}")
fail_record(err) ==
    finish_record([results EXCEPT
                     !.fails = Append(@, [title |-> selected[idx].title,
                                          error |-> err])],
                  <<LogFailed(idx, selected[idx].title)>>)

\* a call that succeeded as step number k: on to the next call of the record
continue_record(k) ==
    LET nxt == next_call(k, selected[idx]) IN
    IF nxt = "none" THEN succeed_record(FALSE)
    ELSE /\ worker_pc' = nxt
         /\ UNCHANGED <<results, idx, after_queue>>

bulkFrame == <<selected, chosen_status, chosen_dispo, chosen_assignee_label,
               chosen_email, status_wanted, comment, total, report,
               progress_open>>

\* update_selected_async, up to after(100, start_work).  wanted tells
\* whether the operator means to change the status; the status menu holds
\* one of STATUSES either way
update_selected_async(wanted, status, dispo, label, box) ==
    /\ worker_pc = "idle"
    /\ ~progress_open
    /\ selected_rows # <<>>
    /\ selected' = selected_rows
    /\ status_wanted' = wanted
    /\ chosen_status' = status
    /\ chosen_dispo' = dispo
    /\ chosen_assignee_label' = label
    /\ chosen_email' = chosen_email_of(label)
    /\ comment' = Strip(box)
    /\ total' = Len(selected_rows)
    /\ results' = [successes |-> 0, fails |-> <<>>]
    /\ progress_open' = TRUE
    /\ worker_pc' = "scheduled"
    /\ UNCHANGED <<idx, calls, got_rrn, report, after_queue>>

\* start_work: the thread starts and runs up to its first network call
start_work ==
    /\ worker_pc = "scheduled"
    /\ idx' = 1
    /\ after_queue' = Append(after_queue, UpdateDetail(1, selected[1].title))
    /\ worker_pc' = next_call(0, selected[1])
    /\ UNCHANGED <<calls, results, got_rrn, bulkFrame>>

\* set_status
worker_set_status(ok) ==
    /\ worker_pc = "status"
    /\ calls' = Append(calls, Call("status", inv_key_v2(selected[idx]), ok, ~ok))
    /\ IF ok THEN continue_record(1) ELSE fail_record("HTTPError")
    /\ UNCHANGED <<got_rrn, bulkFrame>>

\* set_disposition
worker_set_disposition(ok) ==
    /\ worker_pc = "dispo"
    /\ calls' = Append(calls, Call("dispo", inv_key_v2(selected[idx]), ok, ~ok))
    /\ IF ok THEN continue_record(2) ELSE fail_record("HTTPError")
    /\ UNCHANGED <<got_rrn, bulkFrame>>

\* what the PATCH of assign_user can do: answer 200 or 204, answer another
\* 2xx status, answer a status that is not 2xx, or raise in requests.patch
PatchOutcomes == {"200", "2xx", "error", "raise"}

\* assign_user goes on to the PUT: the PATCH returned a response whose
\* status_code is not in (200, 204)
patch_falls_back(outcome) == outcome \in {"2xx", "error"}

\* assign_user: the PATCH
worker_patch(outcome) ==
    /\ worker_pc = "patch"
    /\ calls' = Append(calls, Call("patch", inv_key_v2(selected[idx]),
                                   outcome \in {"200", "2xx"},
                                   outcome = "raise"))
    /\ CASE outcome = "200"            -> continue_record(3)
         [] patch_falls_back(outcome)  -> /\ worker_pc' = "put"
                                          /\ UNCHANGED <<results, idx, after_queue>>
         [] OTHER                      -> fail_record("ConnectionError")
    /\ UNCHANGED <<got_rrn, bulkFrame>>

\* assign_user: the fallback PUT and its raise_for_status
worker_put(ok) ==
    /\ worker_pc = "put"
    /\ calls' = Append(calls, Call("put", inv_key_v2(selected[idx]), ok, ~ok))
    /\ IF ok THEN continue_record(3) ELSE fail_record("HTTPError")
    /\ UNCHANGED <<got_rrn, bulkFrame>>

\* get_rrn(inv_id) for a record that carries no rrn: a ValueError for an
\* empty id, the id itself when it is an RRN, else the GET and what it finds
worker_get_rrn(ok) ==
    /\ worker_pc = "get_rrn"
    /\ LET inv_id == selected[idx].id
           rrn == get_rrn(inv_id, IF ok THEN "rrn:found" ELSE "") IN
       /\ got_rrn' = rrn
       /\ calls' = IF get_rrn_without_request(inv_id) THEN calls
                   ELSE Append(calls, Call("get_rrn", inv_id, ok, ~ok))
       /\ IF rrn # "" THEN /\ worker_pc' = "comment"
                           /\ UNCHANGED <<results, idx, after_queue>>
          ELSE fail_record(IF inv_id = "" THEN "ValueError" ELSE "HTTPError")
    /\ UNCHANGED bulkFrame

\* target_rrn = inv_rrn or get_rrn(inv_id)
target_rrn(rec) == IF rec.rrn # "" THEN rec.rrn ELSE got_rrn

\* create_comment_v1 and the code after it
worker_create_comment(ok) ==
    /\ worker_pc = "comment"
    /\ calls' = Append(calls, Call("comment", target_rrn(selected[idx]), ok, ~ok))
    /\ IF ok THEN succeed_record(TRUE) ELSE fail_record("RuntimeError")
    /\ UNCHANGED <<got_rrn, bulkFrame>>

(***************************************************************************)
(* Callbacks run by the foreground thread, in the order they were posted.  *)
(***************************************************************************)
HeadIs(fn) == after_queue # <<>> /\ Head(after_queue).fn = fn

\* progress.update_detail and _log_status change labels and the status box
run_display_callback ==
    /\ \/ HeadIs("update_detail")
       \/ HeadIs("log_updated")
       \/ HeadIs("log_failed")
    /\ after_queue' = Tail(after_queue)
    /\ delivered' = IF HeadIs("update_detail") THEN delivered
                    ELSE Append(delivered, Head(after_queue))

\* lambda c=comment: self._add_to_comment_history(c)
run_add_to_comment_history ==
    /\ HeadIs("add_to_comment_history")
    /\ after_queue' = Tail(after_queue)
    /\ add_to_comment_history(Head(after_queue).title)
    /\ UNCHANGED hist_ops

\* the state of a bulk run that the foreground callbacks leave alone
bulkRun == <<selected, chosen_status, chosen_dispo, chosen_assignee_label,
             chosen_email, status_wanted, got_rrn, comment,
             total, results, idx, worker_pc, calls>>

\* refresh_async: a ProgressDialog opens and after(100, start_work) is set
refresh_async ==
    /\ progress_open' = TRUE
    /\ fetch_pc' = "scheduled"
    /\ rows_before' = rows
    /\ UNCHANGED <<server_pages, server_total, server_index, index, all_items,
                   requested>>

\* start_work of refresh_async: the thread starts list_investigations and
\* _check_thread_progress starts polling it
refresh_start_work ==
    /\ fetch_pc = "scheduled"
    /\ checking' = TRUE
    /\ index' = 0
    /\ all_items' = <<>>
    /\ requested' = <<>>
    /\ fetch_pc' = "loop"
    /\ UNCHANGED <<server_pages, server_total, server_index>>

\* faulty variant of the refresh worker: after a failure it hands over the
\* pages it has
refresh_worker_post_partial ==
    /\ fetch_pc \in {"returned", "raised"}
    /\ after_queue' = Append(after_queue,
                             [fn |-> "refresh_complete", data |-> all_items])
    /\ fetch_pc' = IF fetch_pc = "returned" THEN "posted" ELSE "in_except"
    /\ UNCHANGED <<server_pages, server_total, server_index, index, all_items,
                   requested>>

\* the refresh worker after list_investigations: data is handed to
\* _refresh_complete and the thread ends; in the except block the lambda
\* that calls _refresh_error(e) is posted, and the worker is still inside
\* the block, where e is bound
refresh_worker_post ==
    /\ fetch_pc \in {"returned", "raised"}
    /\ after_queue' = Append(after_queue,
           IF fetch_pc = "returned"
           THEN [fn |-> "refresh_complete", data |-> all_items]
           ELSE [fn |-> "refresh_error", error |-> "HTTPError"])
    /\ fetch_pc' = IF fetch_pc = "returned" THEN "posted" ELSE "in_except"
    /\ UNCHANGED <<server_pages, server_total, server_index, index, all_items,
                   requested>>

\* the refresh worker leaves "except Exception as e": e is unbound from
\* here on, also in the cell the posted lambda reads, and the thread ends
refresh_worker_leave_except ==
    /\ fetch_pc = "in_except"
    /\ fetch_pc' = "failed"
    /\ UNCHANGED <<server_pages, server_total, server_index, index, all_items,
                   requested>>

\* _check_thread_progress once the thread is dead: the dialog is destroyed
\* and the polling ends
check_thread_progress ==
    /\ checking
    /\ fetch_pc \in {"posted", "failed"}
    /\ progress_open' = FALSE
    /\ checking' = FALSE

\* the operator closes the ProgressDialog of a bulk run with the window's
\* close button (the dialog sets no WM_DELETE_WINDOW handler): the dialog
\* is destroyed and its grab is gone
close_progress_dialog ==
    /\ progress_open
    /\ worker_pc # "idle"
    /\ ~report.shown
    /\ progress_open' = FALSE
    /\ closed_early' = TRUE

\* lambda: self._refresh_error(e).  The lambda reads the worker's e when it
\* runs: while the worker is inside its except block _refresh_error logs
\* and shows str(e); once the worker has left the block the lambda raises
\* NameError and _refresh_error is not called
refresh_error ==
    /\ HeadIs("refresh_error")
    /\ after_queue' = Tail(after_queue)
    /\ IF fetch_pc = "in_except"
       THEN /\ error_shown' = Head(after_queue).error
            /\ tk_error' = "none"
       ELSE /\ tk_error' = "NameError"
            /\ UNCHANGED error_shown

\* faulty variant of _update_complete: refreshes only after a run without
\* failures
run_update_complete_refreshing_on_success ==
    /\ HeadIs("update_complete")
    /\ after_queue' = Tail(after_queue)
    /\ report' = [shown |-> TRUE, successes |-> results.successes,
                  fails |-> results.fails, total |-> total]
    /\ IF results.fails = <<>>
       THEN refresh_async
       ELSE /\ progress_open' = FALSE
            /\ UNCHANGED <<fetchVars, rows_before>>
    /\ UNCHANGED bulkRun

\* _update_complete: the dialog closes, the report is shown, and
\* refresh_async opens its own dialog and schedules the fetch
run_update_complete ==
    /\ HeadIs("update_complete")
    /\ after_queue' = Tail(after_queue)
    /\ report' = [shown |-> TRUE, successes |-> results.successes,
                  fails |-> results.fails, total |-> total]
    /\ refresh_async
    /\ UNCHANGED bulkRun

\* faulty variant of _refresh_complete: the fetched records are added to
\* the record set
refresh_complete_merging ==
    /\ HeadIs("refresh_complete")
    /\ after_queue' = Tail(after_queue)
    /\ rows' = rows \o Head(after_queue).data
    /\ filter_options' = filter_options_of(rows')
    /\ assignee_filter_var' =
           IF assignee_filter_var \in filter_options'
           THEN assignee_filter_var ELSE "All"
    /\ UNCHANGED sort_oldest_first
    /\ rebuild_list

\* _refresh_complete(data)
refresh_complete ==
    /\ HeadIs("refresh_complete")
    /\ after_queue' = Tail(after_queue)
    /\ rows' = Head(after_queue).data
    /\ filter_options' = filter_options_of(rows')
    /\ assignee_filter_var' =
           IF assignee_filter_var \in filter_options'
           THEN assignee_filter_var ELSE "All"
    /\ UNCHANGED sort_oldest_first
    /\ rebuild_list

(***************************************************************************)
(* API client.  Each operation is modelled by what it does with the HTTP   *)
(* status of the server's answer: whether it raises to its caller and what *)
(* it returns.  body_ok says that the answer's body parses as JSON of the  *)
(* shape the operation reads.                                              *)
(***************************************************************************)
HttpStatuses == {200, 201, 202, 204, 304, 400, 404, 500, 503}

\* requests' Response.raise_for_status(): raises for a 4xx or 5xx status
raise_for_status(status) == status >= 400 /\ status < 600

api_call(op, answers, body_ok, raised, value) ==
    /\ api_op' = op
    /\ api_answers' = answers
    /\ api_body_ok' = body_ok
    /\ api_raised' = raised
    /\ api_value' = IF raised THEN "nothing" ELSE value

\* one page request of list_investigations
list_investigations_request(status, body_ok) ==
    api_call("list_investigations", <<status>>, body_ok,
             raise_for_status(status) \/ ~body_ok, "items")

set_status(status) ==
    api_call("set_status", <<status>>, TRUE, raise_for_status(status), "None")

set_disposition(status) ==
    api_call("set_disposition", <<status>>, TRUE, raise_for_status(status),
             "None")

\* faulty variant of assign_user: a PATCH answered with a 4xx or 5xx status
\* raises
assign_user_raising_on_patch(patch_status, put_status) ==
    IF patch_status \in {200, 204}
    THEN api_call("assign_user", <<patch_status>>, TRUE, FALSE, "None")
    ELSE IF raise_for_status(patch_status)
    THEN api_call("assign_user", <<patch_status>>, TRUE, TRUE, "None")
    ELSE api_call("assign_user", <<patch_status, put_status>>, TRUE,
                  raise_for_status(put_status), "None")

\* assign_user: PATCH, and the PUT fallback unless the PATCH was answered
\* with 200 or 204
assign_user(patch_status, put_status) ==
    IF patch_status \in {200, 204}
    THEN api_call("assign_user", <<patch_status>>, TRUE, FALSE, "None")
    ELSE api_call("assign_user", <<patch_status, put_status>>, TRUE,
                  raise_for_status(put_status), "None")

\* get_rrn for an identifier that is not an RRN: the v2 GET by id
get_rrn_request(status, body_ok) ==
    api_call("get_rrn", <<status>>, body_ok,
             raise_for_status(status) \/ ~body_ok, "rrn")

\* create_comment_v1 with a non-empty text: never raises on the status
create_comment_v1(status) ==
    api_call("create_comment_v1", <<status>>, TRUE, FALSE,
             IF status \in {200, 201} THEN "ok" ELSE "not ok")

\* get_comments_v1 with a non-empty target: every failure becomes []
get_comments_v1(status, body_ok) ==
    api_call("get_comments_v1", <<status>>, body_ok, FALSE,
             IF raise_for_status(status) \/ ~body_ok THEN "[]" ELSE "comments")

(***************************************************************************)
(* Settings.  The settings file holds the comment history, the region, the *)
(* assignee directory and the API key source; App.cfg is the copy the App  *)
(* loaded last.                                                            *)
(***************************************************************************)
Regions == {"us", "eu"}
AssigneeDirectories == {"team A", "team B"}
ApiKeySources == {"env", "file"}

\* load_settings(): the settings file as a dict
load_settings ==
    [comment_history |-> settings_comment_history,
     region          |-> settings_region,
     assignees       |-> settings_assignees,
     api_key_source  |-> settings_api_key_source]

\* the settings file after save_settings(c)
save_settings(c) ==
    /\ settings_comment_history' = c.comment_history
    /\ settings_region' = c.region
    /\ settings_assignees' = c.assignees
    /\ settings_api_key_source' = c.api_key_source

\* open_region_org_dialog.save_and_close with a non-empty region
save_region_org(r) ==
    /\ cfg_ops < MaxCfgOps
    /\ cfg_ops' = cfg_ops + 1
    /\ save_settings([load_settings EXCEPT !.region = r])
    /\ region' = r
    /\ UNCHANGED <<cfg, assignees_saved>>

\* first_run_api_key_setup.save_and_close, opened from the settings menu
save_api_key(src) ==
    /\ cfg_ops < MaxCfgOps
    /\ cfg_ops' = cfg_ops + 1
    /\ save_settings([load_settings EXCEPT !.api_key_source = src])
    /\ UNCHANGED <<cfg, region, assignees_saved>>

\* configure_assignees with a non-empty dialog result:
\* save_assignees_to_settings(self.cfg, result) writes App.cfg with the new
\* directory, then App.cfg is loaded again
configure_assignees(result) ==
    /\ cfg_ops < MaxCfgOps
    /\ cfg_ops' = cfg_ops + 1
    /\ save_settings([cfg EXCEPT !.assignees = result])
    /\ cfg' = [cfg EXCEPT !.assignees = result]
    /\ assignees_saved' = TRUE
    /\ UNCHANGED region

(***************************************************************************)
(* Specifications.  Each one starts the part of the program it exercises   *)
(* in a state the program reaches and leaves the other parts at rest.      *)
(***************************************************************************)
HistoryIdle ==
    /\ comment_history = <<>>
    /\ settings_comment_history = <<>>
    /\ now = 1
    /\ appended = <<>>
    /\ hist_ops = 0
    /\ last_hist_op = "load"

FetchIdle ==
    /\ server_pages = <<>>
    /\ server_total = [present |-> TRUE, value |-> 0]
    /\ server_index = TrueIndex
    /\ index = 0
    /\ all_items = <<>>
    /\ fetch_pc = "idle"
    /\ requested = <<>>

ViewIdle ==
    /\ rows = <<>>
    /\ sort_oldest_first = FALSE
    /\ assignee_filter_var = "All"
    /\ filter_options = {"All"}
    /\ row_frames = <<>>
    /\ row_vars = <<>>
    /\ tk_error = "none"

BulkIdle ==
    /\ selected = <<>>
    /\ chosen_status = ""
    /\ chosen_dispo = ""
    /\ chosen_assignee_label = "Unassigned / No Change"
    /\ chosen_email = ""
    /\ status_wanted = FALSE
    /\ got_rrn = ""
    /\ comment = ""
    /\ total = 0
    /\ results = [successes |-> 0, fails |-> <<>>]
    /\ idx = 0
    /\ worker_pc = "idle"
    /\ calls = <<>>
    /\ report = [shown |-> FALSE, successes |-> 0, fails |-> <<>>, total |-> 0]
    /\ progress_open = FALSE

UiIdle ==
    /\ delivered = <<>>
    /\ error_shown = ""
    /\ rows_before = <<>>
    /\ checking = FALSE
    /\ closed_early = FALSE

ApiIdle ==
    /\ api_op = "none"
    /\ api_answers = <<>>
    /\ api_body_ok = TRUE
    /\ api_raised = FALSE
    /\ api_value = "nothing"

\* the settings of a configured installation, loaded by App.__init__
CfgLoaded ==
    /\ settings_region = "us"
    /\ settings_assignees = "team A"
    /\ settings_api_key_source = "env"
    /\ region = settings_region
    /\ cfg = load_settings
    /\ cfg_ops = 0
    /\ assignees_saved = FALSE

\* ---- comment history: a session that sends test comments and clears ----
SendNow ==
    /\ \E box \in CommentBoxTexts, ok \in BOOLEAN : send_now(box, ok)
    /\ UNCHANGED <<fetchVars, viewVars, bulkVars, after_queue, uiVars>>
    /\ UNCHANGED <<dialogVars, apiVars, cfgVars>>
ClearCommentHistory ==
    /\ clear_comment_history
    /\ UNCHANGED <<fetchVars, viewVars, bulkVars, after_queue, uiVars>>
    /\ UNCHANGED <<dialogVars, apiVars, cfgVars>>
RestartSession ==
    /\ restart_session
    /\ UNCHANGED <<fetchVars, viewVars, bulkVars, after_queue, uiVars>>
    /\ UNCHANGED <<dialogVars, apiVars, cfgVars>>

InitHistorySpec ==
    InitHistory /\ FetchIdle /\ ViewIdle /\ BulkIdle /\ UiIdle /\ ApiIdle /\ CfgLoaded
    /\ after_queue = <<>>

NextHistory ==
    \/ SendNow
    \/ ClearCommentHistory
    \/ RestartSession

SpecHistory == InitHistorySpec /\ [][NextHistory]_vars

\* ---- paginated fetch: one run of list_investigations ----
ListInvestigationsPage ==
    /\ list_investigations_page
    /\ UNCHANGED <<histVars, viewVars, bulkVars, after_queue, uiVars>>
    /\ UNCHANGED <<dialogVars, apiVars, cfgVars>>
ListInvestigationsRaise ==
    /\ list_investigations_raise
    /\ UNCHANGED <<histVars, viewVars, bulkVars, after_queue, uiVars>>
    /\ UNCHANGED <<dialogVars, apiVars, cfgVars>>

InitFetchSpec ==
    InitFetch /\ HistoryIdle /\ ViewIdle /\ BulkIdle /\ UiIdle /\ ApiIdle /\ CfgLoaded
    /\ after_queue = <<>>

NextFetch ==
    \/ ListInvestigationsPage
    \/ ListInvestigationsRaise

SpecFetch == InitFetchSpec /\ [][NextFetch]_vars

\* ---- view projection: a fetched record set arrives, then the operator
\* ---- toggles the sort direction and picks assignee filters
OnSortToggle ==
    /\ after_queue = <<>>
    /\ ~progress_open
    /\ on_sort_toggle
    /\ UNCHANGED <<histVars, fetchVars, bulkVars, after_queue, uiVars>>
    /\ UNCHANGED <<dialogVars, apiVars, cfgVars>>
SelectAssigneeFilter ==
    /\ after_queue = <<>>
    /\ ~progress_open
    /\ \E choice \in filter_options : select_assignee_filter(choice)
    /\ UNCHANGED <<histVars, fetchVars, bulkVars, after_queue, uiVars>>
    /\ UNCHANGED <<dialogVars, apiVars, cfgVars>>
RefreshComplete ==
    /\ refresh_complete
    /\ UNCHANGED <<histVars, fetchVars, bulkVars, uiVars>>
    /\ UNCHANGED <<dialogVars, apiVars, cfgVars>>

\* the first fetch of a freshly started App has returned its data
InitViewSpec ==
    /\ HistoryIdle /\ FetchIdle /\ ViewIdle /\ BulkIdle /\ UiIdle /\ ApiIdle /\ CfgLoaded
    /\ \E data \in RecordSets :
          after_queue = <<[fn |-> "refresh_complete", data |-> data]>>

NextView ==
    \/ RefreshComplete
    \/ OnSortToggle
    \/ SelectAssigneeFilter

SpecView == InitViewSpec /\ [][NextView]_vars

\* ---- bulk update: the operator ticks records and starts one bulk run ----
Titles == <<"alpha", "bravo", "charlie", "delta", "echo">>

\* the identifiers records come with: plain ids and ids that are RRNs
PlainIds == <<"inv-1", "inv-2", "inv-3", "inv-4">>
RrnIds == <<"rrn:inv-1", "rrn:inv-2", "rrn:inv-3", "rrn:inv-4">>

\* a fetched record set of n records.  Records come in three kinds, in
\* turn from the kind of the first one: id and rrn, a plain id and no rrn,
\* an id that is an RRN and no rrn
BulkRows(n, first) ==
    [i \in 1..n |->
        LET kind == (i + first) % 3 IN
        [id |-> IF kind = 2 THEN RrnIds[i] ELSE PlainIds[i],
         rrn |-> IF kind = 0 THEN "rrn:inv" ELSE "",
         title |-> Titles[i], created_time |-> TimeZ(i + 1), email |-> ""]]

InitBulkSpec ==
    /\ HistoryIdle /\ FetchIdle /\ BulkIdle /\ UiIdle /\ ApiIdle /\ CfgLoaded
    /\ after_queue = <<>>
    /\ \E n \in 1..MaxBulkRows, first \in 0..2 : rows = BulkRows(n, first)
    /\ sort_oldest_first = FALSE
    /\ assignee_filter_var = "All"
    /\ filter_options = filter_options_of(rows)
    /\ row_frames = sorted_rows_current_view(rows, FALSE, "All").rows
    /\ row_vars = [i \in 1..Len(rows) |-> FALSE]
    /\ tk_error = "none"

ToggleRow ==
    /\ worker_pc = "idle"
    /\ ~progress_open
    /\ \E i \in 1..Len(row_vars) : toggle_row(i)
    /\ UNCHANGED <<histVars, fetchVars, bulkVars, after_queue, uiVars>>
    /\ UNCHANGED <<dialogVars, apiVars, cfgVars>>
UpdateSelectedAsync ==
    /\ \E wanted \in BOOLEAN, status \in StatusChoices,
          dispo \in DispositionChoices, label \in AssigneeLabels,
          box \in {"", " fp "} :
          \* an operator who wants no status change leaves the menu at
          \* "OPEN"; one who wants a change picks "CLOSED"
          /\ wanted <=> status = "CLOSED"
          /\ update_selected_async(wanted, status, dispo, label, box)
    /\ UNCHANGED <<histVars, fetchVars, viewVars, uiVars>>
    /\ UNCHANGED <<dialogVars, apiVars, cfgVars>>
StartWork ==
    /\ start_work
    /\ UNCHANGED <<histVars, fetchVars, viewVars, uiVars>>
    /\ UNCHANGED <<dialogVars, apiVars, cfgVars>>
WorkerSetStatus ==
    /\ \E ok \in BOOLEAN : worker_set_status(ok)
    /\ UNCHANGED <<histVars, fetchVars, viewVars, uiVars>>
    /\ UNCHANGED <<dialogVars, apiVars, cfgVars>>
WorkerSetDisposition ==
    /\ \E ok \in BOOLEAN : worker_set_disposition(ok)
    /\ UNCHANGED <<histVars, fetchVars, viewVars, uiVars>>
    /\ UNCHANGED <<dialogVars, apiVars, cfgVars>>
WorkerPatch ==
    /\ \E outcome \in PatchOutcomes : worker_patch(outcome)
    /\ UNCHANGED <<histVars, fetchVars, viewVars, uiVars>>
    /\ UNCHANGED <<dialogVars, apiVars, cfgVars>>
WorkerPut ==
    /\ \E ok \in BOOLEAN : worker_put(ok)
    /\ UNCHANGED <<histVars, fetchVars, viewVars, uiVars>>
    /\ UNCHANGED <<dialogVars, apiVars, cfgVars>>
WorkerGetRrn ==
    /\ \E ok \in BOOLEAN : worker_get_rrn(ok)
    /\ UNCHANGED <<histVars, fetchVars, viewVars, uiVars>>
    /\ UNCHANGED <<dialogVars, apiVars, cfgVars>>
WorkerCreateComment ==
    /\ \E ok \in BOOLEAN : worker_create_comment(ok)
    /\ UNCHANGED <<histVars, fetchVars, viewVars, uiVars>>
    /\ UNCHANGED <<dialogVars, apiVars, cfgVars>>
RunDisplayCallback ==
    /\ run_display_callback
    /\ UNCHANGED <<histVars, fetchVars, viewVars, bulkVars, error_shown,
                   rows_before>>
    /\ UNCHANGED <<dialogVars, apiVars, cfgVars>>
RunAddToCommentHistory ==
    /\ run_add_to_comment_history
    /\ UNCHANGED <<fetchVars, viewVars, bulkVars, uiVars>>
    /\ UNCHANGED <<dialogVars, apiVars, cfgVars>>
RunUpdateComplete ==
    \* the model keeps one fetch thread: the refresh that follows the report
    \* is followed only when no earlier fetch is still under way
    /\ fetch_pc \in {"idle", "posted", "failed"} /\ ~checking
    /\ run_update_complete
    /\ UNCHANGED <<histVars, viewVars, delivered, error_shown>>
    /\ UNCHANGED <<dialogVars, apiVars, cfgVars>>

NextBulk ==
    \/ ToggleRow
    \/ UpdateSelectedAsync
    \/ StartWork
    \/ WorkerSetStatus
    \/ WorkerSetDisposition
    \/ WorkerPatch
    \/ WorkerPut
    \/ WorkerGetRrn
    \/ WorkerCreateComment
    \/ RunDisplayCallback
    \/ RunAddToCommentHistory
    \/ RunUpdateComplete

SpecBulk == InitBulkSpec /\ [][NextBulk]_vars

\* the steps of the bulk worker thread: each is a network call that
\* returns or fails
BulkWorkerSteps ==
    \/ WorkerSetStatus
    \/ WorkerSetDisposition
    \/ WorkerPatch
    \/ WorkerPut
    \/ WorkerGetRrn
    \/ WorkerCreateComment

\* the steps of the Tk main loop: the after(100, start_work) timer and the
\* after(0, ...) callbacks
MainLoopSteps ==
    \/ StartWork
    \/ RunDisplayCallback
    \/ RunAddToCommentHistory
    \/ RunUpdateComplete

\* the bulk run with a worker thread that keeps running (every network call
\* returns or fails) and a main loop that keeps serving its callbacks
SpecBulkFair ==
    /\ InitBulkSpec
    /\ [][NextBulk]_vars
    /\ WF_vars(BulkWorkerSteps)
    /\ WF_vars(MainLoopSteps)

\* ---- refresh: the App starts with its first fetch scheduled; the operator
\* ---- refreshes again whenever no dialog is open
RefreshRecord(i) == Record(i, <<TimeZ(i), "">>)

\* the server's pages as pages of investigation records
RecordPages(pages) ==
    [p \in 1..Len(pages) |->
        [i \in 1..Len(pages[p]) |-> RefreshRecord(pages[p][i])]]

\* the App as __init__ leaves it, but for the server it talks to
AppStarted ==
    /\ HistoryIdle /\ ViewIdle /\ ApiIdle /\ CfgLoaded
    /\ after_queue = <<>>
    /\ delivered = <<>>
    /\ error_shown = ""
    /\ rows_before = <<>>
    /\ checking = FALSE
    /\ closed_early = FALSE
    /\ index = 0
    /\ all_items = <<>>
    /\ requested = <<>>
    /\ fetch_pc = "scheduled"
    /\ selected = <<>>
    /\ chosen_status = ""
    /\ chosen_dispo = ""
    /\ chosen_assignee_label = "Unassigned / No Change"
    /\ chosen_email = ""
    /\ status_wanted = FALSE
    /\ got_rrn = ""
    /\ comment = ""
    /\ total = 0
    /\ results = [successes |-> 0, fails |-> <<>>]
    /\ idx = 0
    /\ worker_pc = "idle"
    /\ calls = <<>>
    /\ report = [shown |-> FALSE, successes |-> 0, fails |-> <<>>, total |-> 0]
    /\ progress_open = TRUE

InitRefreshSpec ==
    /\ AppStarted
    /\ \E lens \in PageLengths : server_pages = RecordPages(PagesOf(lens, 1))
    /\ \E t \in 0..MaxPages, p \in BOOLEAN :
         server_total = [present |-> p, value |-> IF p THEN t ELSE 0]
    /\ server_index = TrueIndex

\* faulty variant of the operator's refresh: the Refresh button works while
\* a ProgressDialog is open, as if the dialog held no grab
RefreshAsyncWithoutGrab ==
    /\ after_queue = <<>>
    /\ fetch_pc \in {"idle", "posted", "failed"} /\ ~checking
    /\ refresh_async
    /\ UNCHANGED <<histVars, viewVars, bulkRun, report, after_queue,
                   delivered, error_shown>>
    /\ UNCHANGED <<dialogVars, apiVars, cfgVars>>

\* the operator presses Refresh: possible only while no ProgressDialog
\* holds the grab
RefreshAsync ==
    /\ ~progress_open
    /\ after_queue = <<>>
    \* the model keeps one fetch thread
    /\ fetch_pc \in {"idle", "posted", "failed"} /\ ~checking
    /\ refresh_async
    /\ UNCHANGED <<histVars, viewVars, bulkRun, report, after_queue,
                   delivered, error_shown>>
    /\ UNCHANGED <<dialogVars, apiVars, cfgVars>>
RefreshStartWork ==
    /\ refresh_start_work
    /\ UNCHANGED <<histVars, viewVars, bulkVars, after_queue, uiVars>>
    /\ UNCHANGED <<closed_early, apiVars, cfgVars>>
RefreshWorkerPost ==
    /\ refresh_worker_post
    /\ UNCHANGED <<histVars, viewVars, bulkVars, uiVars>>
    /\ UNCHANGED <<dialogVars, apiVars, cfgVars>>
CheckThreadProgress ==
    /\ check_thread_progress
    /\ UNCHANGED <<histVars, fetchVars, viewVars, bulkRun, report,
                   after_queue, uiVars, closed_early, apiVars, cfgVars>>
CloseProgressDialog ==
    /\ close_progress_dialog
    /\ UNCHANGED <<histVars, fetchVars, viewVars, bulkRun, report,
                   after_queue, uiVars, checking, apiVars, cfgVars>>
RefreshWorkerLeaveExcept ==
    /\ refresh_worker_leave_except
    /\ UNCHANGED <<histVars, viewVars, bulkVars, after_queue, uiVars>>
    /\ UNCHANGED <<dialogVars, apiVars, cfgVars>>
RefreshError ==
    /\ refresh_error
    /\ UNCHANGED <<histVars, fetchVars, bulkVars, delivered, rows_before>>
    /\ UNCHANGED <<rows, sort_oldest_first, assignee_filter_var,
                   filter_options, row_frames, row_vars>>
    /\ UNCHANGED <<dialogVars, apiVars, cfgVars>>

NextRefresh ==
    \/ RefreshAsync
    \/ RefreshStartWork
    \/ ListInvestigationsPage
    \/ ListInvestigationsRaise
    \/ RefreshWorkerPost
    \/ RefreshWorkerLeaveExcept
    \/ CheckThreadProgress
    \/ RefreshComplete
    \/ RefreshError

SpecRefresh == InitRefreshSpec /\ [][NextRefresh]_vars

\* ---- a session around one bulk run: the first fetch has brought the
\* ---- server's records, the operator ticks records and starts a bulk run,
\* ---- and the record set is fetched again after it.  The operator may
\* ---- close the dialog of the bulk run and refresh while the run is under
\* ---- way; refreshes at other times are SpecRefresh's
InitSessionSpec ==
    /\ HistoryIdle /\ BulkIdle /\ UiIdle /\ ApiIdle /\ CfgLoaded
    /\ after_queue = <<>>
    /\ \E n \in 1..MaxSessionRows, first \in 0..2 : rows = BulkRows(n, first)
    /\ sort_oldest_first = FALSE
    /\ assignee_filter_var = "All"
    /\ filter_options = filter_options_of(rows)
    /\ row_frames = sorted_rows_current_view(rows, FALSE, "All").rows
    /\ row_vars = [i \in 1..Len(rows) |-> FALSE]
    /\ tk_error = "none"
    /\ server_pages = <<rows>>
    /\ server_total = [present |-> TRUE, value |-> 1]
    /\ server_index = TrueIndex
    /\ index = 0
    /\ all_items = rows
    /\ fetch_pc = "posted"
    /\ requested = <<0>>

\* the bulk runs of the session set the status and may add a comment
UpdateSelectedInSession ==
    /\ \E box \in {"", " fp "} :
          update_selected_async(TRUE, "CLOSED", "", "Unassigned / No Change",
                                box)
    /\ UNCHANGED <<histVars, fetchVars, viewVars, uiVars, dialogVars>>
    /\ UNCHANGED <<apiVars, cfgVars>>

RefreshDuringBulkRun ==
    /\ worker_pc # "idle"
    /\ ~report.shown
    /\ RefreshAsync

NextSession ==
    \/ RefreshDuringBulkRun
    \/ RefreshStartWork
    \/ ListInvestigationsPage
    \/ ListInvestigationsRaise
    \/ RefreshWorkerPost
    \/ RefreshWorkerLeaveExcept
    \/ CheckThreadProgress
    \/ RefreshComplete
    \/ RefreshError
    \/ CloseProgressDialog
    \/ ToggleRow
    \/ UpdateSelectedInSession
    \/ StartWork
    \/ WorkerSetStatus
    \/ WorkerGetRrn
    \/ WorkerCreateComment
    \/ RunDisplayCallback
    \/ RunAddToCommentHistory
    \/ RunUpdateComplete

SpecSession == InitSessionSpec /\ [][NextSession]_vars

\* ---- the list: fetched record sets arrive while the operator sorts,
\* ---- filters and ticks records, and then starts a bulk run
SelectKinds ==
    {<<TimeZ(2), "">>, <<TimeZ(3), "b@x">>, <<TimeNaive(2), "a@x">>,
     <<TimeBad, " a@x ">>}

SelectRecordSets ==
    UNION {{[i \in 1..n |-> Record(i, f[i])] : f \in [1..n -> SelectKinds]}
             : n \in 0..MaxSelectRows}

\* the worker of a fetch posts its result
FetchReturns ==
    /\ after_queue = <<>>
    /\ ~progress_open
    /\ \E data \in SelectRecordSets :
          after_queue' = <<[fn |-> "refresh_complete", data |-> data]>>
    /\ UNCHANGED <<histVars, fetchVars, viewVars, bulkVars, uiVars>>
    /\ UNCHANGED <<dialogVars, apiVars, cfgVars>>

InitSelectSpec ==
    /\ HistoryIdle /\ FetchIdle /\ ViewIdle /\ BulkIdle /\ UiIdle
    /\ ApiIdle /\ CfgLoaded
    /\ \E data \in SelectRecordSets :
          after_queue = <<[fn |-> "refresh_complete", data |-> data]>>

NextSelect ==
    \/ RefreshComplete
    \/ FetchReturns
    \/ OnSortToggle
    \/ SelectAssigneeFilter
    \/ ToggleRow
    \/ UpdateSelectedInSession

SpecSelect == InitSelectSpec /\ [][NextSelect]_vars

\* ---- API client: operations called one after another, the server
\* ---- answering each request with any status
restOfApp == <<histVars, fetchVars, viewVars, bulkVars, after_queue, uiVars,
               dialogVars>>

ListInvestigationsRequest ==
    /\ \E status \in HttpStatuses, body_ok \in BOOLEAN :
          list_investigations_request(status, body_ok)
    /\ UNCHANGED <<restOfApp, cfgVars>>
SetStatus ==
    /\ \E status \in HttpStatuses : set_status(status)
    /\ UNCHANGED <<restOfApp, cfgVars>>
SetDisposition ==
    /\ \E status \in HttpStatuses : set_disposition(status)
    /\ UNCHANGED <<restOfApp, cfgVars>>
AssignUser ==
    /\ \E patch_status \in HttpStatuses, put_status \in HttpStatuses :
          assign_user(patch_status, put_status)
    /\ UNCHANGED <<restOfApp, cfgVars>>
GetRrnRequest ==
    /\ \E status \in HttpStatuses, body_ok \in BOOLEAN :
          get_rrn_request(status, body_ok)
    /\ UNCHANGED <<restOfApp, cfgVars>>
CreateCommentV1 ==
    /\ \E status \in HttpStatuses : create_comment_v1(status)
    /\ UNCHANGED <<restOfApp, cfgVars>>
GetCommentsV1 ==
    /\ \E status \in HttpStatuses, body_ok \in BOOLEAN :
          get_comments_v1(status, body_ok)
    /\ UNCHANGED <<restOfApp, cfgVars>>

InitApiSpec ==
    /\ HistoryIdle /\ FetchIdle /\ ViewIdle /\ BulkIdle /\ UiIdle
    /\ ApiIdle /\ CfgLoaded
    /\ after_queue = <<>>

NextApi ==
    \/ ListInvestigationsRequest
    \/ SetStatus
    \/ SetDisposition
    \/ AssignUser
    \/ GetRrnRequest
    \/ CreateCommentV1
    \/ GetCommentsV1

SpecApi == InitApiSpec /\ [][NextApi]_vars

\* ---- settings: comments recorded, the history cleared, and the region,
\* ---- the API key source and the assignee directory saved in any order
restOfSession == <<fetchVars, viewVars, bulkVars, after_queue, uiVars,
                   dialogVars, apiVars>>

RecordComment ==
    /\ hist_ops < MaxHistoryOps
    /\ hist_ops' = hist_ops + 1
    /\ add_to_comment_history("fp")
    /\ UNCHANGED <<restOfSession, cfgVars>>
ClearRecordedComments ==
    /\ clear_comment_history
    /\ UNCHANGED <<restOfSession, cfgVars>>
SaveRegionOrg ==
    /\ \E r \in Regions : save_region_org(r)
    /\ UNCHANGED <<restOfSession, comment_history, now, appended, hist_ops,
                   last_hist_op>>
SaveApiKey ==
    /\ \E src \in ApiKeySources : save_api_key(src)
    /\ UNCHANGED <<restOfSession, comment_history, now, appended, hist_ops,
                   last_hist_op>>
ConfigureAssignees ==
    /\ \E result \in AssigneeDirectories : configure_assignees(result)
    /\ UNCHANGED <<restOfSession, comment_history, now, appended, hist_ops,
                   last_hist_op>>

InitSettingsSpec ==
    /\ InitHistory /\ FetchIdle /\ ViewIdle /\ BulkIdle /\ UiIdle
    /\ ApiIdle /\ CfgLoaded
    /\ after_queue = <<>>

NextSettings ==
    \/ RecordComment
    \/ ClearRecordedComments
    \/ SaveRegionOrg
    \/ SaveApiKey
    \/ ConfigureAssignees

SpecSettings == InitSettingsSpec /\ [][NextSettings]_vars

(***************************************************************************)
(* Properties of the bulk update (SpecBulk)                                *)
(***************************************************************************)
CallIndices(j, ops, ok) ==
    {k \in 1..Len(calls) :
        calls[k].idx = j /\ calls[k].op \in ops /\ calls[k].ok = ok}

\* every call made for record j succeeded
AllCallsOk(j) == CallIndices(j, {calls[k].op : k \in 1..Len(calls)}, FALSE) = {}

\* record i failed at the assignee step, PATCH and PUT both, and nowhere else
FailedAtAssignee(i) ==
    /\ CallIndices(i, {"patch"}, FALSE) # {}
    /\ CallIndices(i, {"put"}, FALSE) # {}
    /\ CallIndices(i, {"status", "dispo", "get_rrn", "comment"}, FALSE) = {}

\* record j received every requested field update (the assignee more than
\* once when a PATCH that answered 2xx was followed by the PUT)
ReceivedEveryUpdate(j) ==
    /\ chosen_status # "" => Cardinality(CallIndices(j, {"status"}, TRUE)) = 1
    /\ chosen_dispo # "" => Cardinality(CallIndices(j, {"dispo"}, TRUE)) = 1
    /\ chosen_email # "" => Cardinality(CallIndices(j, {"patch", "put"}, TRUE)) >= 1
    /\ comment # "" => Cardinality(CallIndices(j, {"comment"}, TRUE)) = 1

OnlyAssigneeFailureAt(i) ==
    /\ FailedAtAssignee(i)
    /\ \A j \in 1..total : j # i => AllCallsOk(j)

\* C1: when exactly one selected record i fails at the assignee step and
\* every other call succeeds, every other record receives every requested
\* update, the success count is K-1 and the failure list is one entry
\* naming record i's title, in the worker's results and in the report.
C1_AssigneeFailureIsIsolated ==
    worker_pc = "done" =>
        \A i \in 1..total :
            OnlyAssigneeFailureAt(i) =>
                /\ \A j \in 1..total : j # i => ReceivedEveryUpdate(j)
                /\ results.successes = total - 1
                /\ Len(results.fails) = 1
                /\ results.fails[1].title = selected[i].title
                /\ report.shown =>
                       /\ report.successes = total - 1
                       /\ report.fails = results.fails

C1_Witness ==
    /\ report.shown
    /\ total = 2
    /\ OnlyAssigneeFailureAt(1)
    /\ chosen_dispo # "" /\ comment # ""
    /\ results.successes = 1

PendingHistoryAppends ==
    {k \in 1..Len(after_queue) : after_queue[k].fn = "add_to_comment_history"}

\* C2: a bulk run appends at most one entry to the comment history (which
\* is empty when the run starts), however many comments it creates.
C2_AtMostOneHistoryEntryPerRun ==
    Len(comment_history) + Cardinality(PendingHistoryAppends) <= 1

C2_Witness ==
    /\ report.shown
    /\ total = 2
    /\ comment # ""
    /\ results.successes = 2
    /\ Len(comment_history) = 1

\* C3: once a bulk run that requested a comment has reported, the comment
\* text is in the history if the comment was created for at least one
\* selected record, whichever record that was.
C3_HistoryAppendedOnFirstSuccess ==
    (/\ report.shown
     /\ comment # ""
     /\ \E j \in 1..total : CallIndices(j, {"comment"}, TRUE) # {})
      => /\ Len(comment_history) = 1
         /\ comment_history[1].text = comment

\* the selected records whose comment target comes from get_rrn and whose
\* id is already an RRN
RrnIdRecords ==
    {j \in 1..total : selected[j].rrn = "" /\ startswith_rrn(selected[j].id)}

\* C11: an identifier that already starts with "rrn:" is resolved to
\* itself, whatever the server would answer, and no GET is issued for it:
\* the comment of such a record is posted to the record's id.
C11_RrnIdentifierResolvedLocally ==
    /\ \A k \in 1..Len(calls) :
           calls[k].op = "get_rrn" => ~startswith_rrn(calls[k].arg)
    /\ \A j \in RrnIdRecords :
           /\ \A found \in {"", "rrn:found"} :
                  get_rrn(selected[j].id, found) = selected[j].id
           /\ \A k \in 1..Len(calls) :
                  calls[k].idx = j /\ calls[k].op = "comment"
                      => calls[k].arg = selected[j].id

C11_Witness ==
    \E k \in 1..Len(calls) :
        /\ calls[k].op = "comment"
        /\ calls[k].idx \in RrnIdRecords
        /\ calls[k].ok

\* the place of a call in the worker's try block
OpRank(op) ==
    CASE op = "status"  -> 1
      [] op = "dispo"   -> 2
      [] op = "patch"   -> 3
      [] op = "put"     -> 4
      [] op = "get_rrn" -> 5
      [] op = "comment" -> 6

\* C12: the selection is the ticked cards in displayed order; every call
\* is made for the record at the worker's position or an earlier one; each
\* call is followed by one for a later record of the selection, or for the
\* same record and a later step (status, disposition, assignee PATCH then
\* PUT, RRN lookup, comment).  Each call has returned or failed
\* when the next one is made: the worker makes them one after the other.
C12_CallsInSelectionAndStepOrder ==
    /\ worker_pc # "idle" => selected = TickedRows(row_frames, row_vars, 1)
    /\ \A k \in 1..Len(calls) :
           /\ calls[k].idx \in 1..idx
           /\ calls[k].rec = selected[calls[k].idx].id
    /\ \A k \in 1..(Len(calls) - 1) :
           \/ calls[k].idx < calls[k + 1].idx
           \/ /\ calls[k].idx = calls[k + 1].idx
              /\ OpRank(calls[k].op) < OpRank(calls[k + 1].op)

C12_Witness ==
    /\ worker_pc = "done"
    /\ total = 2
    /\ \A j \in 1..total :
           \A op \in {"status", "dispo", "patch", "put", "comment"} :
               \E k \in 1..Len(calls) : calls[k].idx = j /\ calls[k].op = op
    /\ \E k \in 1..Len(calls) : calls[k].op = "get_rrn"

\* the calls that ended their record's try block with an exception
RaisedCalls == {k \in 1..Len(calls) : calls[k].raised}

\* the records the worker has finished with
CompletedRecords ==
    IF worker_pc = "done" THEN 1..total
    ELSE IF idx = 0 THEN {} ELSE 1..(idx - 1)

FailedRecords == {calls[k].idx : k \in RaisedCalls}

\* the raised calls in the order they were made
RECURSIVE RaisedIdxSeq(_)
RaisedIdxSeq(k) ==
    IF k > Len(calls) THEN <<>>
    ELSE (IF calls[k].raised THEN <<calls[k].idx>> ELSE <<>>)
             \o RaisedIdxSeq(k + 1)

\* C13: a call that fails is the last call made for its record; the
\* failure list holds one entry per failed record, naming its title, in the
\* order of the failures; the success count is the number of finished
\* records without a failed call; and the worker has moved on: the failed
\* record is finished, and at the end every selected record was processed.
C13_FailureAbortsOnlyItsRecord ==
    /\ \A k \in RaisedCalls :
           /\ \A l \in 1..Len(calls) : l > k => calls[l].idx # calls[k].idx
           /\ calls[k].idx \in CompletedRecords
    /\ Len(results.fails) = Len(RaisedIdxSeq(1))
    /\ \A m \in 1..Len(results.fails) :
           results.fails[m].title = selected[RaisedIdxSeq(1)[m]].title
    /\ results.successes = Cardinality(CompletedRecords \ FailedRecords)
    /\ worker_pc = "done" =>
           \A j \in 1..total : \E k \in 1..Len(calls) : calls[k].idx = j

C13_Witness ==
    /\ worker_pc = "done"
    /\ total = 2
    /\ chosen_dispo # "" /\ chosen_email # "" /\ comment # ""
    /\ \E k \in RaisedCalls : calls[k].idx = 1 /\ calls[k].op = "dispo"
    /\ \E k \in 1..Len(calls) : calls[k].idx = 2 /\ calls[k].op = "comment"
    /\ results.successes = 1
    /\ Len(results.fails) = 1

PutCalls(j) == {l \in 1..Len(calls) : calls[l].idx = j /\ calls[l].op = "put"}

\* the PATCH made as call k has been dealt with: assign_user is not
\* standing between it and the PUT
PatchHandled(k) == ~(worker_pc = "put" /\ idx = calls[k].idx)

\* C14: the fallback PUT is issued whenever the PATCH fails (a response
\* that is not 2xx, or a transport failure) and is not issued when the
\* PATCH answers any 2xx status; the assignee step fails for the record
\* only when both calls fail.
C14_PutIffPatchFailed ==
    \A k \in 1..Len(calls) :
        calls[k].op = "patch" /\ PatchHandled(k) =>
            /\ ~calls[k].ok => PutCalls(calls[k].idx) # {}
            /\ calls[k].ok => PutCalls(calls[k].idx) = {}
            /\ (calls[k].raised \/ \E l \in PutCalls(calls[k].idx) : calls[l].raised)
                   => /\ ~calls[k].ok
                      /\ \E l \in PutCalls(calls[k].idx) : ~calls[l].ok

\* C15: a bulk run started with the no-change entry of the assignee menu
\* issues neither the PATCH nor the PUT of the assignee step for any record.
C15_NoChangeEntryIssuesNoAssigneeCall ==
    chosen_assignee_label = "Unassigned / No Change" =>
        /\ worker_pc \notin {"patch", "put"}
        /\ \A k \in 1..Len(calls) : calls[k].op \notin {"patch", "put"}

C15_Witness ==
    /\ report.shown
    /\ chosen_assignee_label = "Unassigned / No Change"
    /\ total = 2
    /\ chosen_dispo # "" /\ comment # ""
    /\ Len(calls) >= 6

\* C16: the status update is optional: a bulk run whose operator asks for
\* a disposition, an assignee or a comment and for no status change issues
\* no set-status call for any selected record.
C16_NoStatusCallUnlessWanted ==
    ~status_wanted =>
        /\ worker_pc # "status"
        /\ \A k \in 1..Len(calls) : calls[k].op # "status"

PendingLogCallbacks ==
    {k \in 1..Len(after_queue) :
        after_queue[k].fn \in {"log_updated", "log_failed"}}

\* C17: the foreground thread runs one log callback per finished record:
\* the m-th one carries index m, the total n and the title of the m-th
\* selected record, and says whether that record succeeded or failed; none
\* is run before its record is finished, none is lost, and when the final
\* report is delivered all n have been run.
C17_OneNotificationPerRecordThenReport ==
    /\ \A m \in 1..Len(delivered) :
           /\ m \in CompletedRecords
           /\ delivered[m].i = m
           /\ delivered[m].total = total
           /\ delivered[m].title = selected[m].title
           /\ delivered[m].fn = "log_failed" <=> m \in FailedRecords
    /\ Len(delivered) + Cardinality(PendingLogCallbacks)
           = Cardinality(CompletedRecords)
    /\ report.shown => Len(delivered) = total /\ report.total = total

C17_Witness ==
    /\ report.shown
    /\ total = 2
    /\ Len(delivered) = 2
    /\ delivered[1].fn = "log_failed"
    /\ delivered[2].fn = "log_updated"

\* the position in the selection of the record a failure entry names
SelectionIndex(entry) ==
    CHOOSE j \in 1..total : selected[j].title = entry.title

\* C18: at every point of a bulk run the success count plus the number of
\* failure entries is the number of records finished so far, which is the
\* number of selected records at the end and in the report; the failure
\* entries name records in the order of the selection.
C18_CountsAddUpAndFailuresInOrder ==
    /\ results.successes + Len(results.fails) = Cardinality(CompletedRecords)
    /\ worker_pc = "done" => results.successes + Len(results.fails) = total
    /\ report.shown => report.successes + Len(report.fails) = report.total
    /\ \A m, n \in 1..Len(results.fails) :
           m < n => SelectionIndex(results.fails[m])
                        < SelectionIndex(results.fails[n])

C18_Witness ==
    /\ report.shown
    /\ total = 2
    /\ report.successes = 0
    /\ Len(report.fails) = 2
    /\ report.fails[1].title = selected[1].title
    /\ report.fails[2].title = selected[2].title

\* the number of calls that applied one of ops to record j
TimesApplied(j, ops) == Cardinality(CallIndices(j, ops, TRUE))

\* C19: every record counted as a success had each requested update
\* (status, disposition, assignee, comment) applied exactly once.
C19_SuccessMeansEachUpdateOnce ==
    \A j \in CompletedRecords \ FailedRecords :
        /\ chosen_status # "" => TimesApplied(j, {"status"}) = 1
        /\ chosen_dispo # "" => TimesApplied(j, {"dispo"}) = 1
        /\ chosen_email # "" => TimesApplied(j, {"patch", "put"}) = 1
        /\ comment # "" => TimesApplied(j, {"comment"}) = 1

(***************************************************************************)
(* Properties of the comment history log (SpecHistory)                     *)
(***************************************************************************)
\* C4: the in-memory comment history never holds more than 50 entries.
C4_InMemoryHistoryBounded == Len(comment_history) <= HistoryCap

MinOf(a, b) == IF a < b THEN a ELSE b

\* the last min(n, cap) entries of a log of n entries, in append order
LastEntries(log, cap) ==
    LET n == Len(log)
        k == MinOf(n, cap)
    IN [i \in 1..k |-> log[n - k + i]]

\* C5: right after an append the persisted history is the last min(n, 50)
\* entries appended since the last clear, in append order; right after a
\* clear it is empty.
C5_PersistedIsLastAppended ==
    /\ last_hist_op = "append" =>
           settings_comment_history = LastEntries(appended, HistoryCap)
    /\ last_hist_op = "clear" => settings_comment_history = <<>>

C5_Witness ==
    /\ last_hist_op = "append"
    /\ Len(appended) > HistoryCap
    /\ Len(settings_comment_history) = HistoryCap

(***************************************************************************)
(* Properties of the paginated fetch (SpecFetch)                           *)
(***************************************************************************)
\* C6: against a server that reports its true page count, the fetch stops
\* after at most max(N, 1) requests and returns exactly the pages 0..N-1
\* concatenated in page order.
C6_FetchReturnsAllPages ==
    HonestServer =>
        /\ Len(requested) <= (IF Len(server_pages) = 0 THEN 1 ELSE Len(server_pages))
        /\ fetch_pc = "loop" =>
               /\ index = Len(requested)
               /\ index < (IF Len(server_pages) = 0 THEN 1 ELSE Len(server_pages))
               /\ all_items = Concat(SubSeq(server_pages, 1, index))
        /\ fetch_pc = "returned" =>
               /\ all_items = Concat(server_pages)
               /\ Cardinality({all_items[i] : i \in 1..Len(all_items)})
                      = Len(all_items)

C6_Witness ==
    /\ HonestServer
    /\ fetch_pc = "returned"
    /\ Len(server_pages) >= 3
    /\ Len(all_items) > Len(server_pages)

(***************************************************************************)
(* Properties of the view projection (SpecView)                            *)
(***************************************************************************)
AllParseable(rs) == \A i \in 1..Len(rs) : Parseable(rs[i].created_time)

\* all timestamps carry an offset (Z or explicit), or none does
SameKind(rs) ==
    \/ \A i \in 1..Len(rs) : rs[i].created_time.form \in {"Z", "offset"}
    \/ \A i \in 1..Len(rs) : rs[i].created_time.form = "naive"

Instant(ct) == ct.wall - ct.off

DistinctInstants(rs) ==
    \A i, j \in 1..Len(rs) :
        i # j => Instant(rs[i].created_time) # Instant(rs[j].created_time)

SortToggled == sort_oldest_first' # sort_oldest_first

\* C7 as stated: with all timestamps parseable, toggling the direction
\* reverses the projection, ties included.
C7_DirectionsAreReverses ==
    [][(SortToggled /\ AllParseable(rows) /\ tk_error = "none"
            /\ tk_error' = "none")
         => row_frames' = ReverseSeq(row_frames)]_vars

\* C7 amended: with all timestamps parseable and pairwise distinct as
\* instants, toggling the direction reverses the projection; when the set
\* mixes timestamps with and without an offset there is no projection in
\* either direction, the sort having raised (C9).
C7_DirectionsAreReversesWhenDistinct ==
    [][(SortToggled /\ AllParseable(rows) /\ DistinctInstants(rows))
         => IF SameKind(rows)
            THEN tk_error' = "none" /\ row_frames' = ReverseSeq(row_frames)
            ELSE /\ tk_error = "TypeError" /\ tk_error' = "TypeError"
                 /\ row_frames = <<>> /\ row_frames' = <<>>]_vars

C7_Witness ==
    /\ sort_oldest_first
    /\ AllParseable(rows) /\ SameKind(rows) /\ DistinctInstants(rows)
    /\ Len(row_frames) >= 3

\* C8: in the displayed projection every record with an unparsable or
\* missing timestamp is at the oldest end: after all parseable records when
\* newest-first, before them when oldest-first.
C8_UnparsableAtOldestEnd ==
    \A i, j \in 1..Len(row_frames) :
        (~Parseable(row_frames[i].created_time)
            /\ Parseable(row_frames[j].created_time))
          => IF sort_oldest_first THEN i < j ELSE i > j

C8_Witness ==
    /\ sort_oldest_first
    /\ Len(row_frames) >= 3
    /\ \E i, j \in 1..Len(row_frames) :
          /\ ~Parseable(row_frames[i].created_time)
          /\ Parseable(row_frames[j].created_time)

\* the records of a sequence
Elems(s) == {s[i] : i \in 1..Len(s)}

\* C9: the projection sort never aborts and returns a permutation of the
\* record set, whatever mixture of timestamps with a UTC marker, without
\* one, and unparsable ones it holds.
C9_SortNeverAborts ==
    /\ tk_error = "none"
    /\ assignee_filter_var = "All" =>
           /\ Len(row_frames) = Len(rows)
           /\ Elems(row_frames) = Elems(rows)

\* position of a record in a sequence of distinct records
PosIn(s, r) == CHOOSE i \in 1..Len(s) : s[i] = r

\* what the filter value asks of a record
Wanted(r, choice) ==
    CASE choice = "All"        -> TRUE
      [] choice = "Unassigned" -> Strip(r.email) = ""
      [] OTHER                 -> Strip(r.email) = choice

\* C10: the displayed projection holds exactly the records of the sorted
\* sequence that the filter value asks for (all of them for All, those with
\* no assignee email for Unassigned, those with that email otherwise), each
\* once and in the order of the sorted sequence.
C10_FilterKeepsExactlyWanted ==
    tk_error = "none" =>
        LET srt == sorted_rows(rows, ~sort_oldest_first).rows IN
        /\ Elems(row_frames) = {r \in Elems(srt) : Wanted(r, assignee_filter_var)}
        /\ Cardinality(Elems(row_frames)) = Len(row_frames)
        /\ \A i, j \in 1..Len(row_frames) :
               i < j => PosIn(srt, row_frames[i]) < PosIn(srt, row_frames[j])
        /\ assignee_filter_var = "All" => row_frames = srt

C10_Witness ==
    /\ assignee_filter_var = "a@x"
    /\ Len(row_frames) >= 2
    /\ Len(row_frames) < Len(rows)
    /\ \E i \in 1..Len(row_frames) : row_frames[i].email = " a@x "

(***************************************************************************)
(* Properties of the refresh (SpecRefresh)                                 *)
(***************************************************************************)
\* C20: from the moment a fetch has failed, on its first page request or a
\* later one, until the next fetch starts, the record set is the one that
\* was there when the fetch started: the pages gathered before the failure
\* are never installed.
C20_FailedFetchLeavesRows ==
    fetch_pc \in {"raised", "in_except", "failed"} => rows = rows_before

C20_Witness ==
    /\ fetch_pc = "failed"
    /\ after_queue = <<>>
    /\ Len(requested) >= 2
    /\ all_items # <<>>
    /\ rows # <<>>
    /\ rows # all_items

\* the callback of the failed fetch has been run
FailureHandled ==
    /\ fetch_pc \in {"in_except", "failed"}
    /\ after_queue = <<>>

\* C21: whenever a fetch has failed, the callback posted for it runs
\* _refresh_error on the foreground thread, which surfaces the raw error
\* message of the failure (status log entry and error dialog).
C21_FetchFailureIsSurfaced ==
    FailureHandled => tk_error = "none" /\ error_shown = "HTTPError"

(***************************************************************************)
(* Properties of a session (SpecSession)                                   *)
(***************************************************************************)
\* a step of the foreground thread that runs the callback fn and in which
\* no worker thread moves
ForegroundRuns(fn) ==
    /\ HeadIs(fn)
    /\ after_queue' = Tail(after_queue)
    /\ worker_pc' = worker_pc
    /\ calls' = calls
    /\ fetch_pc' = fetch_pc

\* C22: the record set changes only in a step of the foreground thread
\* that runs _refresh_complete, and then it becomes the whole result of a
\* completed fetch; the comment history changes only in a step of the
\* foreground thread that runs _add_to_comment_history; a step of the bulk
\* worker or of the fetch worker changes neither, and the bulk worker
\* leaves the selected records as they are.
C22_SingleWriter ==
    [][/\ rows' # rows =>
           /\ ForegroundRuns("refresh_complete")
           /\ rows' = Head(after_queue).data
           /\ rows' = Concat(server_pages)
       /\ comment_history' # comment_history =>
           ForegroundRuns("add_to_comment_history")
       /\ (worker_pc \notin {"idle", "scheduled"} /\ calls' # calls) =>
           selected' = selected]_vars

C22_Witness ==
    /\ report.shown
    /\ closed_early
    /\ fetch_pc = "posted"
    /\ after_queue = <<>>
    /\ rows = Concat(server_pages)
    /\ comment_history # <<>>
    /\ results.successes = total

(***************************************************************************)
(* Termination of a bulk run (SpecBulkFair)                                *)
(***************************************************************************)
\* the log callbacks of record i that the foreground thread has run
LogsOfRecord(i) ==
    {k \in DOMAIN delivered :
        /\ delivered[k].fn \in {"log_updated", "log_failed"}
        /\ delivered[k].i = i}

BulkRunReported ==
    /\ report.shown
    /\ worker_pc = "done"
    /\ idx = total
    /\ results.successes + Len(results.fails) = total
    /\ \A i \in 1..total : Cardinality(LogsOfRecord(i)) = 1

\* C23: a started bulk run leads to its final report, with every selected
\* record processed exactly once (one outcome and one log line each),
\* whichever calls fail.
C23_BulkRunCompletes == (worker_pc = "scheduled") ~> BulkRunReported

C23_Witness ==
    /\ BulkRunReported
    /\ total = 2
    /\ results.successes = 0
    /\ \E k \in DOMAIN calls : calls[k].raised

(***************************************************************************)
(* Properties of the API client (SpecApi)                                  *)
(***************************************************************************)
NonSuccess(status) == status < 200 \/ status > 299
ErrorStatus(status) == status \in 400..599
LastAnswer == api_answers[Len(api_answers)]

\* C24 as stated: whenever the server answered a request of an operation
\* with a non-2xx status, the operation raised to its caller.
C24_NonSuccessAlwaysRaises ==
    (/\ api_op # "none"
     /\ \E k \in DOMAIN api_answers : NonSuccess(api_answers[k])) => api_raised

\* C24: list and get raise when the answer has a 4xx or 5xx status; set
\* status and set disposition raise exactly then; set assignee issues its
\* PUT exactly when the PATCH was not answered with 200 or 204 and raises
\* exactly when that PUT is answered with a 4xx or 5xx status; create
\* comment never raises and reports ok exactly for 200 and 201; get
\* comments never raises and returns an empty list for a 4xx or 5xx answer.
C24_RaisesByOperation ==
    /\ api_op \in {"list_investigations", "get_rrn"} =>
           (ErrorStatus(LastAnswer) => api_raised)
    /\ api_op \in {"set_status", "set_disposition"} =>
           (api_raised <=> ErrorStatus(LastAnswer))
    /\ api_op = "assign_user" =>
           /\ Len(api_answers) = 2 <=> api_answers[1] \notin {200, 204}
           /\ api_raised <=>
                  (Len(api_answers) = 2 /\ ErrorStatus(api_answers[2]))
    /\ api_op = "create_comment_v1" =>
           /\ ~api_raised
           /\ api_value = "ok" <=> LastAnswer \in {200, 201}
    /\ api_op = "get_comments_v1" =>
           /\ ~api_raised
           /\ ErrorStatus(LastAnswer) => api_value = "[]"

C24_Witness ==
    /\ api_op = "create_comment_v1"
    /\ api_answers = <<500>>
    /\ ~api_raised
    /\ api_value = "not ok"

(***************************************************************************)
(* The order of page requests and the stop conditions (SpecFetch)          *)
(***************************************************************************)
\* the answer to the k-th request, which asks for page k - 1, ends the loop
StopsAt(k) ==
    \/ page_items(k - 1) = <<>>
    \/ total_pages_of(server_total) = 0
    \/ server_index.present /\
           (k - 1) + server_index.skew >= total_pages_of(server_total) - 1
    \/ ~server_index.present /\ (k - 1) >= total_pages_of(server_total) - 1

\* the first n pages the server holds, as far as it holds them
FirstPages(n) ==
    Concat(SubSeq(server_pages, 1, MinOf(n, Len(server_pages))))

\* C25: the page indices requested are 0, 1, 2, ... in this order; no
\* answer before the last one was an empty page, reported an index of at
\* least total_pages - 1, or reported total_pages 0 or not at all; the
\* fetch returns right after the first answer that does, with the pages
\* received so far and nothing else.
C25_ConsecutivePagesUntilFirstStop ==
    /\ \A k \in DOMAIN requested : requested[k] = k - 1
    /\ \A k \in DOMAIN requested :
           (k < Len(requested) \/ fetch_pc = "loop") => ~StopsAt(k)
    /\ fetch_pc = "loop" =>
           index = Len(requested) /\ all_items = FirstPages(Len(requested))
    /\ fetch_pc = "returned" =>
           /\ requested # <<>>
           /\ StopsAt(Len(requested))
           /\ all_items = FirstPages(Len(requested))

C25_Witness ==
    /\ fetch_pc = "returned"
    /\ total_pages_of(server_total) = 0
    /\ Len(server_pages) >= 2
    /\ requested = <<0>>
    /\ all_items = server_pages[1]

(***************************************************************************)
(* The refresh that follows a bulk run (SpecBulk)                          *)
(***************************************************************************)
FetchStarts == fetch_pc # "scheduled" /\ fetch_pc' = "scheduled"

\* C26: a fetch starts in the step that delivers the final report of a
\* bulk run and in no other step of the run: by then the worker is done,
\* every selected record is finished and every log line has been shown;
\* once a report is delivered, with or without failures, the fetch has
\* been started.
C26_RefreshFollowsEveryReport ==
    /\ [](report.shown => fetch_pc = "scheduled" /\ progress_open)
    /\ [][FetchStarts =>
             /\ HeadIs("update_complete")
             /\ ~report.shown /\ report'.shown
             /\ worker_pc = "done"
             /\ idx = total
             /\ Cardinality(CompletedRecords) = total
             /\ Len(delivered) = total
             /\ rows_before' = rows]_vars

C26_Witness ==
    /\ report.shown
    /\ fetch_pc = "scheduled"
    /\ total = 2
    /\ Len(report.fails) = 1
    /\ report.successes = 1

(***************************************************************************)
(* Properties of the list and its checkboxes (SpecSelect)                  *)
(***************************************************************************)
\* C27: a sort toggle, a filter change, a tick and the selection read by
\* update_selected_async leave the record set as it is, contents and
\* order, whether or not the sort succeeds; the rebuild at the end of a
\* refresh leaves it as the fetch delivered it.
C27_ProjectionLeavesRows ==
    [][IF HeadIs("refresh_complete") /\ after_queue' = Tail(after_queue)
       THEN rows' = Head(after_queue).data
       ELSE rows' = rows]_vars

C27_Witness ==
    /\ progress_open
    /\ selected # <<>>
    /\ sort_oldest_first
    /\ assignee_filter_var = "b@x"
    /\ Len(rows) >= 2
    /\ rows[1].created_time = TimeZ(3)
    /\ rows[2].created_time = TimeZ(2)

\* the checkboxes that are ticked, as positions in the list
Ticked == {i \in 1..Len(row_vars) : row_vars[i]}

\* C28: whenever the foreground thread is idle the projection of the
\* record set exists, there is one checkbox per record of it, card i shows
\* its i-th record, and _selected_rows returns the records of the ticked
\* cards in the order of the list.
C28_CheckboxesMatchProjection ==
    after_queue = <<>> =>
        LET view == sorted_rows_current_view(rows, sort_oldest_first,
                                             assignee_filter_var) IN
        /\ view.ok
        /\ Len(row_vars) = Len(view.rows)
        /\ row_frames = view.rows
        /\ Len(selected_rows) = Cardinality(Ticked)
        /\ \A i \in Ticked : \E k \in 1..Len(selected_rows) :
               /\ selected_rows[k] = row_frames[i]
               /\ k = Cardinality({j \in Ticked : j <= i})

\* the same for the record sets that can be sorted
CheckboxesMatchWhenSortable ==
    (after_queue = <<>> /\ Comparable(rows)) => C28_CheckboxesMatchProjection

(***************************************************************************)
(* Overlap of bulk runs and fetches (SpecSession)                          *)
(***************************************************************************)
\* from update_selected_async until the bulk worker has finished
BulkRunning == worker_pc \notin {"idle", "done"}

\* from refresh_async until the fetch worker has finished
FetchRunning ==
    fetch_pc \in {"scheduled", "loop", "returned", "raised", "in_except"}

\* the operator starts a bulk run or a fetch
OperatorStarts ==
    \/ worker_pc = "idle" /\ worker_pc' = "scheduled"
    \/ FetchStarts /\ ~HeadIs("update_complete")

C30_SavesNeverRevert ==
    /\ settings_comment_history = LastN(comment_history, HistoryCap)
    /\ settings_region = region

\* the same as long as the assignee directory has not been saved
NothingRevertedBeforeAssigneeSave == ~assignees_saved => C30_SavesNeverRevert

====
